---- MODULE Spec2Model ----
(***************************************************************************)
(* Google Play Reviews MCP server (src/src/index.ts): the tool handlers    *)
(* get_reviews, post_reply, search_reviews and the resource handlers, over *)
(* the reviews and apps repositories.  The repositories themselves         *)
(* (src/repositories/*.ts) are not part of the available source; their     *)
(* operations find, countReviews, addReply, findById, findAll and          *)
(* getAppStats follow sections 4.1-4.5 of the specification.               *)
(*                                                                         *)
(* Conventions.  A JavaScript value that a caller controls is a tagged     *)
(* record (Undef, Str, Num).  Review ids and app packages are strings in   *)
(* the program; an id is written as a natural number here (id 7 stands for *)
(* the string naming review 7).  Review text, titles, queries and reply    *)
(* texts are sequences of one-character strings, so that length, letter    *)
(* case and substring tests are computed and not assumed.  Timestamps are  *)
(* integers ordered like the ISO-8601 dates they stand for.                *)
(***************************************************************************)
EXTENDS Integers, Sequences, FiniteSets, TLC

(* ---------------- bounds of the model ---------------- *)
MaxReviews == 2
MaxReplies == 2

(* ---------------- constants of the program ---------------- *)
DefaultLimit == 20
DefaultOffset == 0
MinLimit == 1
MaxLimit == 100
MinOffset == 0
MaxReplyLength == 350
SearchBatchLimit == 1000
ResourceLimit == 10
PlaceholderTotalApps == 3
PlaceholderTotalReviews == 8
PlaceholderAverageTenths == 34

(* ---------------- JavaScript values ---------------- *)
Undef == [t |-> "undefined"]
Str(s) == [t |-> "string", str |-> s]
Num(n) == [t |-> "number", num |-> n]

\* typeof v === 'string'
IsString(v) == v.t = "string"
IsNumber(v) == v.t = "number"
Present(v) == v.t # "undefined"

\* `v || d` for a value that is a number or undefined: 0 and undefined are falsy
OrDefault(v, d) == IF IsNumber(v) /\ v.num # 0 THEN v.num ELSE d

\* truthiness of a value that is a package name, a number or undefined
Truthy(v) ==
  CASE v.t = "undefined" -> FALSE
    [] v.t = "number" -> v.num # 0
    [] v.t = "string" -> v.str # ""

Min(a, b) == IF a < b THEN a ELSE b
Max(a, b) == IF a > b THEN a ELSE b

\* Array.prototype.slice(start, end)
Slice(s, start, end) ==
  LET n == Len(s)
      k == IF start < 0 THEN Max(n + start, 0) ELSE Min(start, n)
      f == IF end < 0 THEN Max(n + end, 0) ELSE Min(end, n)
  IN IF k < f THEN SubSeq(s, k + 1, f) ELSE << >>

(* ---------------- strings ---------------- *)
LowerChar(c) ==
  CASE c = "C" -> "c"
    [] c = "R" -> "r"
    [] c = "O" -> "o"
    [] OTHER -> c

\* String.prototype.toLowerCase
ToLowerCase(s) == [i \in 1..Len(s) |-> LowerChar(s[i])]

\* String.prototype.includes
Includes(hay, needle) ==
  \E i \in 0..(Len(hay) - Len(needle)) : SubSeq(hay, i + 1, i + Len(needle)) = needle

\* a text of n characters
Text(n) == [i \in 1..n |-> "x"]

(* ---------------- reviews and store contents ---------------- *)
Apps == {"com.a", "com.b"}
UnknownApp == "com.zz"
\* an id that no store holds
MissingId == SearchBatchLimit + 2

NoReply == [t |-> "undefined"]

Shapes ==
  { [appPackage |-> "com.a", rating |-> 5, date |-> 1, text |-> <<"C", "r">>,
     title |-> Undef, status |-> "new"],
    [appPackage |-> "com.a", rating |-> 1, date |-> 2, text |-> <<"o">>,
     title |-> Str(<<"C", "R">>), status |-> "absent"],
    [appPackage |-> "com.b", rating |-> 5, date |-> 2, text |-> <<"O">>,
     title |-> Str(<< >>), status |-> "resolved"] }

Review(i, sh) ==
  [id |-> i, appPackage |-> sh.appPackage, rating |-> sh.rating, date |-> sh.date,
   text |-> sh.text, title |-> sh.title, replyData |-> NoReply, status |-> sh.status]

SmallStores ==
  UNION { { [i \in 1..n |-> Review(i, f[i])] : f \in [1..n -> Shapes] } : n \in 0..MaxReviews }

\* a store of n reviews of one app, newest first; only the oldest mentions "Cr"
BigStore(n) ==
  [i \in 1..n |->
     [id |-> i, appPackage |-> "com.a", rating |-> IF i % 2 = 1 THEN 5 ELSE 1,
      date |-> n + 1 - i, text |-> IF i = n THEN <<"C", "r">> ELSE <<"o">>,
      title |-> Undef, replyData |-> NoReply, status |-> "new"]]

\* one review more than a search batch holds (and so more than a default page)
BigStores == { BigStore(SearchBatchLimit + 1) }

\* pending: the post_reply calls whose addReply has returned and whose findById
\* has not yet run, each with the reply id its own addReply created
\* proc: the process: the repositories whose init has completed, in order;
\* whether the transport was connected; what failed; the exit code
VARIABLES store, apps, replySeq, req, resp, calls, locals, pending, proc

vars == <<store, apps, replySeq, req, resp, calls, locals, pending, proc>>


(* ---------------- reviews repository ---------------- *)
\* the order find yields: date descending, ties by id ascending
Before(a, b) == a.date > b.date \/ (a.date = b.date /\ a.id < b.id)

IsSorted(s) == \A i \in 1..(Len(s) - 1) : Before(s[i], s[i + 1])

Rank(s, i) == Cardinality({ j \in 1..Len(s) : Before(s[j], s[i]) }) + 1

SortReviews(s) ==
  IF IsSorted(s) THEN s
  ELSE [k \in 1..Len(s) |-> s[CHOOSE i \in 1..Len(s) : Rank(s, i) = k]]

\* Filter Evaluator: the constraints that are present are AND-ed
Matches(r, filter) ==
  /\ Present(filter.appPackage) =>
       (IsString(filter.appPackage) /\ r.appPackage = filter.appPackage.str)
  /\ IsNumber(filter.minRating) => r.rating >= filter.minRating.num
  /\ IsNumber(filter.maxRating) => r.rating <= filter.maxRating.num

\* find(filter): match, order, then slice [offset, offset+limit)
find(reviews, filter) ==
  LET limit == IF IsNumber(filter.limit) THEN filter.limit.num ELSE DefaultLimit
      offset == IF IsNumber(filter.offset) THEN filter.offset.num ELSE DefaultOffset
      matched == SortReviews(SelectSeq(reviews, LAMBDA r : Matches(r, filter)))
  IN Slice(matched, offset, offset + limit)

\* countReviews(appPackage): the reviews of the app, whatever the filter
countReviews(reviews, appPackage) ==
  Len(SelectSeq(reviews, LAMBDA r : r.appPackage = appPackage))

HasReview(reviews, id) == \E i \in 1..Len(reviews) : reviews[i].id = id

IndexOf(reviews, id) == CHOOSE i \in 1..Len(reviews) : reviews[i].id = id

\* findById(id): the review (as [t |-> "object", v |-> review]), or undefined
findById(reviews, id) ==
  IF HasReview(reviews, id) THEN [t |-> "object", v |-> reviews[IndexOf(reviews, id)]]
  ELSE Undef

\* variant of addReplyOutcome: no test for an empty text
addReplyOutcome_AcceptsEmpty(reviews, id, text) ==
  IF Len(text) > MaxReplyLength THEN "invalid"
  ELSE IF ~HasReview(reviews, id) THEN "missing"
  ELSE "added"

\* addReply(reviewId, replyText): "invalid" (InvalidArgument thrown before any
\* mutation), "missing" (returns false) or "added" (returns true)
addReplyOutcome(reviews, id, text) ==
  IF Len(text) = 0 \/ Len(text) > MaxReplyLength THEN "invalid"
  ELSE IF ~HasReview(reviews, id) THEN "missing"
  ELSE "added"

\* the store after a successful addReply: a fresh replyId, the current time,
\* the single reply slot overwritten, status advanced unless resolved
addReply(reviews, id, text, seq) ==
  LET i == IndexOf(reviews, id)
  IN [reviews EXCEPT
        ![i].replyData = [t |-> "object", replyId |-> seq, replyText |-> text,
                          replyDate |-> seq],
        ![i].status = IF reviews[i].status = "resolved" THEN "resolved" ELSE "responded"]

(* ---------------- apps repository ---------------- *)
\* the sum of the ratings (1..5) of a sequence of reviews
RatingSum(reviews) ==
  LET c(k) == Len(SelectSeq(reviews, LAMBDA r : r.rating = k))
  IN c(1) + 2 * c(2) + 3 * c(3) + 4 * c(4) + 5 * c(5)

\* getAppStats(appPackage): undefined for an unknown app, else the count and the
\* mean rating (kept as the fraction ratingSum / totalReviews)
getAppStats(appSet, reviews, appPackage) ==
  IF appPackage \notin appSet THEN Undef
  ELSE LET mine == SelectSeq(reviews, LAMBDA r : r.appPackage = appPackage)
       IN [t |-> "object", totalReviews |-> Len(mine), ratingSum |-> RatingSum(mine)]

(* ---------------- responses ---------------- *)
\* a rejected request: an McpError with its code, or another thrown error
McpError(code) == [status |-> "error", kind |-> "McpError", code |-> code]
ThrownError(code) == [status |-> "error", kind |-> "Error", code |-> code]

\* reading a property of `undefined` throws a TypeError
TypeError == ThrownError("TypeError")

\* the catch clause of the CallTool handler: an McpError is rethrown, any other
\* error is wrapped
CatchClause(error) ==
  IF error.kind = "McpError" THEN error ELSE McpError("InternalError")

ToolNames == {"get_reviews", "post_reply", "search_reviews"}

\* the CallTool handler: a known tool's promise is returned from the try block
\* without await, so its outcome, a rejection included, is the outcome of the
\* call and never enters the catch clause; the default case throws inside the
\* try block
CallTool(name, outcome) ==
  IF name \in ToolNames THEN outcome ELSE CatchClause(McpError("MethodNotFound"))

NoLocals == [t |-> "undefined"]
NoFilter ==
  [appPackage |-> Undef, minRating |-> Undef, maxRating |-> Undef,
   limit |-> Undef, offset |-> Undef]

(* ---------------- tool handlers ---------------- *)
\* handleGetReviews(args)
handleGetReviews(args, reviews) ==
  IF args = Undef
  THEN [resp |-> TypeError, calls |-> << >>, locals |-> NoLocals]
  ELSE IF ~IsString(args.appPackage)
  THEN [resp |-> McpError("InvalidParams"), calls |-> << >>, locals |-> NoLocals]
  ELSE
    LET f == args.filter
        \* { appPackage: args.appPackage, ...args.filter, limit: .. || 20, offset: .. || 0 }
        filter == [appPackage |-> IF Present(f.appPackage) THEN f.appPackage
                                  ELSE args.appPackage,
                   minRating |-> f.minRating,
                   maxRating |-> f.maxRating,
                   limit |-> Num(OrDefault(f.limit, DefaultLimit)),
                   offset |-> Num(OrDefault(f.offset, DefaultOffset))]
        reviews_ == find(reviews, filter)
        total == countReviews(reviews, args.appPackage.str)
        limit == OrDefault(filter.limit, DefaultLimit)
        offset == OrDefault(filter.offset, DefaultOffset)
    IN [resp |-> [status |-> "ok", reviews |-> reviews_,
                  pagination |-> [total |-> total, limit |-> limit, offset |-> offset,
                                  hasMore |-> offset + limit < total]],
        calls |-> <<"find", "countReviews">>,
        locals |-> [t |-> "get_reviews", filter |-> filter]]

\* variant of queryFilter: the stored text and title are not lower-cased
queryFilter_CaseSensitive(review, query) ==
  \/ Includes(review.text, query)
  \/ /\ IsString(review.title)
     /\ review.title.str # << >>
     /\ Includes(review.title.str, query)

\* queryFilter of handleSearchReviews
queryFilter(review, query) ==
  \/ Includes(ToLowerCase(review.text), query)
  \/ /\ IsString(review.title)
     /\ review.title.str # << >>
     /\ Includes(ToLowerCase(review.title.str), query)

\* appPackageFilter of handleSearchReviews
appPackageFilter(review, appPackage) ==
  IF Truthy(appPackage)
  THEN IsString(appPackage) /\ review.appPackage = appPackage.str
  ELSE TRUE

\* handleSearchReviews(args)
handleSearchReviews(args, reviews) ==
  IF args = Undef
  THEN [resp |-> TypeError, calls |-> << >>, locals |-> NoLocals]
  ELSE IF ~IsString(args.query)
  THEN [resp |-> McpError("InvalidParams"), calls |-> << >>, locals |-> NoLocals]
  ELSE
    LET f == args.filter
        \* { ...filter, limit: 1000, offset: 0 }
        batchFilter == [appPackage |-> f.appPackage, minRating |-> f.minRating,
                        maxRating |-> f.maxRating,
                        limit |-> Num(SearchBatchLimit), offset |-> Num(0)]
        query == ToLowerCase(args.query.str)
        reviews_ == find(reviews, batchFilter)
        matchingReviews ==
          SelectSeq(reviews_,
                    LAMBDA r : appPackageFilter(r, args.appPackage) /\ queryFilter(r, query))
        totalMatches == Len(matchingReviews)
        limit == OrDefault(args.limit, DefaultLimit)
        offset == OrDefault(args.offset, DefaultOffset)
        paginatedReviews == Slice(matchingReviews, offset, offset + limit)
    IN [resp |-> [status |-> "ok", reviews |-> paginatedReviews,
                  pagination |-> [total |-> totalMatches, limit |-> limit,
                                  offset |-> offset,
                                  hasMore |-> offset + limit < totalMatches]],
        calls |-> <<"find">>,
        locals |-> [t |-> "search_reviews", filter |-> batchFilter,
                    matching |-> matchingReviews]]

\* variant of ReplyTooLong: the bound itself refused (>= for >)
ReplyTooLong_OffByOne(text) == Len(text) >= MaxReplyLength

\* args.replyText.length > 350
ReplyTooLong(text) == Len(text) > MaxReplyLength

\* variant of ReplyTarget: the reply goes to the first review of the store
ReplyTarget_FirstReview(args) == 1

\* the review handlePostReply hands to addReply and findById: args.reviewId
ReplyTarget(args) == args.reviewId.str

\* the state of a call that waits for a repository operation to return
Awaiting == [status |-> "pending"]

\* handlePostReply(args) up to the return of `await addReply`: the response if
\* the call ends there, the repository calls and the store after
handlePostReply(args, reviews, seq) ==
  LET rejected(r, c) ==
        [resp |-> r, calls |-> c, store |-> reviews, seq |-> seq, added |-> FALSE]
  IN
  IF args = Undef THEN rejected(TypeError, << >>)
  ELSE IF ~IsString(args.reviewId) THEN rejected(McpError("InvalidParams"), << >>)
  ELSE IF ~IsString(args.replyText) THEN rejected(McpError("InvalidParams"), << >>)
  ELSE IF ReplyTooLong(args.replyText.str)
    THEN rejected(McpError("InvalidParams"), << >>)
  ELSE
    LET outcome == addReplyOutcome(reviews, ReplyTarget(args), args.replyText.str)
    IN
    IF outcome = "invalid" THEN rejected(ThrownError("InvalidArgument"), <<"addReply">>)
    ELSE IF outcome = "missing" THEN rejected(McpError("InvalidRequest"), <<"addReply">>)
    ELSE
      [resp |-> Awaiting, calls |-> <<"addReply">>,
       store |-> addReply(reviews, ReplyTarget(args), args.replyText.str, seq + 1),
       seq |-> seq + 1, added |-> TRUE]

\* handlePostReply(args) from `await findById` on: the review is read back
\* from the store as it is by then, and the response is built from it
handlePostReplyResume(args, reviews) ==
  LET review == findById(reviews, ReplyTarget(args))
  IN [resp |-> IF ~Present(review) \/ ~Present(review.v.replyData)
               THEN McpError("InternalError")
               ELSE [status |-> "ok", success |-> TRUE,
                     replyId |-> review.v.replyData.replyId,
                     timestamp |-> review.v.replyData.replyDate],
      calls |-> <<"addReply", "findById">>]

(* ---------------- resource handlers ---------------- *)
\* handleAppsResource()
handleAppsResource(appSet) ==
  [resp |-> [status |-> "ok", apps |-> appSet], calls |-> <<"findAll">>]

\* handleStatsResource()
handleStatsResource ==
  [resp |-> [status |-> "ok", totalApps |-> PlaceholderTotalApps,
             totalReviews |-> PlaceholderTotalReviews,
             averageTenths |-> PlaceholderAverageTenths],
   calls |-> << >>]

\* handleAppReviewsResource(appPackage)
handleAppReviewsResource(appPackage, reviews) ==
  [resp |-> [status |-> "ok",
             reviews |-> find(reviews, [NoFilter EXCEPT !.limit = Num(ResourceLimit),
                                                        !.offset = Num(0)])],
   calls |-> <<"find">>]

\* handleSpecificReviewResource(appPackage, reviewId)
handleSpecificReviewResource(appPackage, reviewId, reviews) ==
  LET review == findById(reviews, reviewId)
  IN [resp |-> IF ~Present(review) THEN McpError("InvalidRequest")
               ELSE [status |-> "ok", review |-> review.v],
      calls |-> <<"findById">>]

\* handleAppStatsResource(appPackage)
handleAppStatsResource(appPackage, appSet, reviews) ==
  LET stats == getAppStats(appSet, reviews, appPackage)
  IN [resp |-> IF ~Present(stats) THEN McpError("InvalidRequest")
               ELSE [status |-> "ok", stats |-> stats],
      calls |-> <<"getAppStats">>]

(* ---------------- requests the clients send ---------------- *)
Filter(app, minR, maxR, lim, off) ==
  [appPackage |-> app, minRating |-> minR, maxRating |-> maxR, limit |-> lim, offset |-> off]

\* <<limit, offset>> as supplied: absent, in range, 0, above the maximum, negative
PageInputs ==
  { <<Undef, Undef>>, <<Num(1), Undef>>, <<Num(1), Num(1)>>, <<Num(0), Undef>>,
    <<Num(MaxLimit + 1), Undef>>, <<Undef, Num(-1)>> }

GetReviewsInputs ==
  { [appPackage |-> Str("com.a"), filter |-> Filter(Undef, Undef, Undef, p[1], p[2])] :
      p \in PageInputs }
  \cup { [appPackage |-> Str("com.b"), filter |-> NoFilter] }
  \cup { [appPackage |-> Str(a), filter |-> Filter(Undef, Num(5), Undef, l, Undef)] :
          a \in Apps, l \in {Undef, Num(1)} }
  \cup { [appPackage |-> Str("com.a"), filter |-> Filter(Undef, Undef, Num(1), Undef, Undef)],
         [appPackage |-> Str("com.a"), filter |-> Filter(Str("com.b"), Undef, Undef, Undef, Undef)],
         [appPackage |-> Num(42), filter |-> NoFilter],
         [appPackage |-> Undef, filter |-> NoFilter] }

Queries == { <<"c", "r">>, <<"C", "R">>, <<"o">> }

SearchInputs ==
  { [query |-> Str(<<"c", "r">>), appPackage |-> Undef, filter |-> NoFilter,
     limit |-> p[1], offset |-> p[2]] : p \in PageInputs }
  \cup { [query |-> Str(<<"c", "r">>), appPackage |-> Str("com.a"), filter |-> NoFilter,
          limit |-> Undef, offset |-> Undef] }
  \cup { [query |-> Str(q), appPackage |-> a, filter |-> NoFilter,
          limit |-> Undef, offset |-> Undef] : q \in Queries, a \in {Undef, Str("com.b")} }
  \cup { [query |-> Str(<<"o">>), appPackage |-> Undef,
          filter |-> Filter(Undef, Num(5), Undef, Undef, Undef),
          limit |-> Undef, offset |-> Undef],
         [query |-> Str(<<"o">>), appPackage |-> Num(42), filter |-> NoFilter,
          limit |-> Undef, offset |-> Undef],
         [query |-> Num(7), appPackage |-> Undef, filter |-> NoFilter,
          limit |-> Undef, offset |-> Undef],
         [query |-> Undef, appPackage |-> Str("com.a"), filter |-> NoFilter,
          limit |-> Undef, offset |-> Undef] }

ReplyLengths == {0, MaxReplyLength, MaxReplyLength + 1}

PostReplyInputs ==
  { [reviewId |-> Str(i), replyText |-> Str(Text(n))] :
      i \in {1, MissingId}, n \in ReplyLengths }
  \cup { [reviewId |-> Num(1), replyText |-> Str(Text(1))],
         [reviewId |-> Undef, replyText |-> Str(Text(1))],
         [reviewId |-> Str(1), replyText |-> Num(5)],
         [reviewId |-> Str(1), replyText |-> Undef] }

(* ---------------- the server ---------------- *)
Idle == [t |-> "undefined"]

\* process.exit(1) of run's catch clause, process.exit(0) of the SIGINT handler
ExitFailure == 1
ExitSignal == 0

\* the process when the constructor has returned
Constructed ==
  [initialized |-> << >>, connected |-> FALSE, failure |-> "none", exitCode |-> Undef]

Alive(p) == p.exitCode = Undef
exit(p, code) == [p EXCEPT !.exitCode = Num(code)]

\* initialize(): `await reviewsRepository.init()`, then `await appsRepository.init()`
InitOrder == <<"reviews", "apps">>
Initialized(p) == Len(p.initialized) = Len(InitOrder)

\* one repository's init ends: on success initialize() goes on, on failure
\* the error is rethrown to run(), whose catch clause exits the process
initialize(p, ok) ==
  LET repo == InitOrder[Len(p.initialized) + 1]
  IN IF ok THEN [p EXCEPT !.initialized = Append(@, repo)]
     ELSE exit([p EXCEPT !.failure = repo], ExitFailure)

\* run() connects when `await this.initialize()` has returned, that is when
\* every init has completed
CanConnect_BeforeInit(p) == Alive(p) /\ ~p.connected
CanConnect(p) == Alive(p) /\ ~p.connected /\ Initialized(p)

\* `await this.server.connect(transport)`
connect(p, ok) ==
  IF ok THEN [p EXCEPT !.connected = TRUE]
  ELSE exit([p EXCEPT !.failure = "connect"], ExitFailure)

\* requests reach the handlers through the connected transport
Serving == Alive(proc) /\ proc.connected

Init ==
  /\ store \in SmallStores
  /\ apps = Apps
  /\ replySeq = 0
  /\ req = Idle
  /\ resp = Idle
  /\ calls = << >>
  /\ locals = NoLocals
  /\ pending = {}
  /\ proc = Constructed

\* a large store, in a server that has one reply left to give
InitBig ==
  /\ store \in BigStores
  /\ apps = Apps
  /\ replySeq = MaxReplies - 1
  /\ req = Idle
  /\ resp = Idle
  /\ calls = << >>
  /\ locals = NoLocals
  /\ pending = {}
  /\ proc = Constructed

\* CallTool 'get_reviews'
GetReviews ==
  /\ Serving
  /\ \E args \in GetReviewsInputs \cup {Undef} :
    LET h == handleGetReviews(args, store)
    IN /\ req' = [t |-> "tool", name |-> "get_reviews", args |-> args]
       /\ resp' = CallTool("get_reviews", h.resp)
       /\ calls' = h.calls
       /\ locals' = h.locals
       /\ UNCHANGED <<store, apps, replySeq, pending, proc>>

\* CallTool 'search_reviews'
SearchReviews ==
  /\ Serving
  /\ \E args \in SearchInputs \cup {Undef} :
    LET h == handleSearchReviews(args, store)
    IN /\ req' = [t |-> "tool", name |-> "search_reviews", args |-> args]
       /\ resp' = CallTool("search_reviews", h.resp)
       /\ calls' = h.calls
       /\ locals' = h.locals
       /\ UNCHANGED <<store, apps, replySeq, pending, proc>>

\* CallTool 'post_reply', up to the return of its addReply
PostReply ==
  /\ Serving
  /\ replySeq < MaxReplies
  /\ \E args \in PostReplyInputs \cup {Undef} :
       LET h == handlePostReply(args, store, replySeq)
       IN /\ req' = [t |-> "tool", name |-> "post_reply", args |-> args]
          /\ resp' = CallTool("post_reply", h.resp)
          /\ calls' = h.calls
          /\ locals' = NoLocals
          /\ store' = h.store
          /\ replySeq' = h.seq
          /\ pending' = IF h.added THEN pending \cup {[args |-> args, created |-> h.seq]}
                         ELSE pending
          /\ UNCHANGED <<apps, proc>>

\* a post_reply call goes on after its addReply: findById and the response
PostReplyResume ==
  /\ Serving
  /\ \E p \in pending :
    LET h == handlePostReplyResume(p.args, store)
    IN /\ req' = [t |-> "tool", name |-> "post_reply", args |-> p.args]
       /\ resp' = CallTool("post_reply", h.resp)
       /\ calls' = h.calls
       /\ locals' = [t |-> "post_reply", created |-> p.created]
       /\ pending' = pending \ {p}
       /\ UNCHANGED <<store, apps, replySeq, proc>>

\* CallTool with a name that is no tool
UnknownTool ==
  /\ Serving
  /\ req' = [t |-> "tool", name |-> "unknown", args |-> Undef]
  /\ resp' = CallTool("unknown", Undef)
  /\ calls' = << >>
  /\ locals' = NoLocals
  /\ UNCHANGED <<store, apps, replySeq, pending, proc>>

Read(uri, h) ==
  /\ Serving
  /\ req' = [t |-> "resource", uri |-> uri]
  /\ resp' = h.resp
  /\ calls' = h.calls
  /\ locals' = NoLocals
  /\ UNCHANGED <<store, apps, replySeq, pending, proc>>

\* ReadResource googleplay://apps
ReadApps == Read([kind |-> "apps"], handleAppsResource(apps))

\* ReadResource googleplay://stats
ReadStats == Read([kind |-> "stats"], handleStatsResource)

\* ReadResource googleplay://reviews/{appPackage}
ReadAppReviews ==
  \E a \in Apps :
    Read([kind |-> "reviews", appPackage |-> a], handleAppReviewsResource(a, store))

\* ReadResource googleplay://reviews/{appPackage}/{reviewId}
ReadSpecificReview ==
  \E i \in {1, MissingId} :
    Read([kind |-> "review", appPackage |-> "com.a", reviewId |-> i],
         handleSpecificReviewResource("com.a", i, store))

\* ReadResource googleplay://stats/{appPackage}
ReadAppStats ==
  \E a \in Apps \cup {UnknownApp} :
    Read([kind |-> "appStats", appPackage |-> a], handleAppStatsResource(a, apps, store))

\* ReadResource with a URI that matches no pattern
ReadInvalidUri ==
  /\ Serving
  /\ req' = [t |-> "resource", uri |-> [kind |-> "invalid"]]
  /\ resp' = McpError("InvalidRequest")
  /\ calls' = << >>
  /\ locals' = NoLocals
  /\ UNCHANGED <<store, apps, replySeq, pending, proc>>

\* run(): a step of `await this.initialize()`
RunInitialize ==
  /\ Alive(proc)
  /\ ~Initialized(proc)
  /\ \E ok \in BOOLEAN : proc' = initialize(proc, ok)
  /\ UNCHANGED <<store, apps, replySeq, req, resp, calls, locals, pending>>

\* run(): `await this.server.connect(transport)`
RunConnect ==
  /\ CanConnect(proc)
  /\ \E ok \in BOOLEAN : proc' = connect(proc, ok)
  /\ UNCHANGED <<store, apps, replySeq, req, resp, calls, locals, pending>>

\* the SIGINT handler: close the server, then process.exit(0)
Sigint ==
  /\ Alive(proc)
  /\ proc' = exit(proc, ExitSignal)
  /\ UNCHANGED <<store, apps, replySeq, req, resp, calls, locals, pending>>

Next ==
  \/ RunInitialize
  \/ RunConnect
  \/ Sigint
  \/ GetReviews
  \/ SearchReviews
  \/ PostReply
  \/ PostReplyResume
  \/ UnknownTool
  \/ ReadApps
  \/ ReadStats
  \/ ReadAppReviews
  \/ ReadSpecificReview
  \/ ReadAppStats
  \/ ReadInvalidUri

Spec == Init /\ [][Next]_vars

SpecBig == InitBig /\ [][Next]_vars

(* ======================================================================= *)
(*                         Properties of the server                        *)
(* ======================================================================= *)
\* the request is a call of tool `name` that carries arguments
IsTool(name) == req.t = "tool" /\ req.name = name /\ req.args # Undef
IsRead(kind) == req.t = "resource" /\ req.uri.kind = kind
IsInvalidParams(r) == r.status = "error" /\ r.kind = "McpError" /\ r.code = "InvalidParams"

\* the rating bounds of a request's filter, as section 4.2 states them
RatingOk(r, f) ==
  /\ IsNumber(f.minRating) => r.rating >= f.minRating.num
  /\ IsNumber(f.maxRating) => r.rating <= f.maxRating.num

\* case-insensitive substring test, by comparing letters pairwise
CasePairs == { <<"C", "c">>, <<"R", "r">>, <<"O", "o">> }
SameLetter(a, b) == a = b \/ <<a, b>> \in CasePairs \/ <<b, a>> \in CasePairs
ContainsIgnoreCase(hay, needle) ==
  \E k \in 0..(Len(hay) - Len(needle)) :
    \A j \in 1..Len(needle) : SameLetter(hay[k + j], needle[j])
TextMatch(r, q) ==
  \/ ContainsIgnoreCase(r.text, q)
  \/ IsString(r.title) /\ ContainsIgnoreCase(r.title.str, q)

\* C1: the total of a get_reviews response is the number of reviews of the
\* requested app that satisfy the filter's constraints, counted before slicing
C1_TotalCountsFilteredReviews ==
  (IsTool("get_reviews") /\ resp.status = "ok" /\ ~Present(req.args.filter.appPackage)) =>
    resp.pagination.total =
      Cardinality({ i \in 1..Len(store) :
                      /\ store[i].appPackage = req.args.appPackage.str
                      /\ RatingOk(store[i], req.args.filter) })

\* the reviews of the whole store that a search request matches
SearchMatches(args) ==
  { i \in 1..Len(store) :
      /\ RatingOk(store[i], args.filter)
      /\ Present(args.filter.appPackage) =>
           (IsString(args.filter.appPackage)
            /\ store[i].appPackage = args.filter.appPackage.str)
      /\ IsString(args.appPackage) => store[i].appPackage = args.appPackage.str
      /\ TextMatch(store[i], args.query.str) }

\* C2: the total of a search_reviews response is the number of reviews of the
\* entire store that pass the filter, the appPackage and the text query, and
\* hasMore is computed from that number
C2_SearchTotalOverWholeStore ==
  (/\ IsTool("search_reviews")
   /\ resp.status = "ok"
   /\ ~Present(req.args.appPackage) \/ IsString(req.args.appPackage)) =>
    LET n == Cardinality(SearchMatches(req.args))
    IN /\ resp.pagination.total = n
       /\ resp.pagination.hasMore = (resp.pagination.offset + resp.pagination.limit < n)

\* a post_reply step whose reviewId and replyText are strings
PostReplyStep ==
  /\ req'.t = "tool"
  /\ req'.name = "post_reply"
  /\ req'.args # Undef
  /\ IsString(req'.args.reviewId)
  /\ IsString(req'.args.replyText)

\* C3: a replyText of exactly 350 characters reaches addReply; one of 351 or
\* more fails with InvalidParams, addReply is not invoked and the store is
\* left as it was
C3_ReplyLengthBoundary ==
  [][PostReplyStep =>
       LET n == Len(req'.args.replyText.str)
       IN /\ n = MaxReplyLength => (calls' # << >> /\ calls'[1] = "addReply")
          /\ n > MaxReplyLength =>
               (IsInvalidParams(resp') /\ calls' = << >> /\ store' = store)]_vars

C3_Witness ==
  /\ IsTool("post_reply")
  /\ IsString(req.args.reviewId)
  /\ IsString(req.args.replyText)
  /\ Len(req.args.replyText.str) = MaxReplyLength
  /\ calls = <<"addReply", "findById">>
  /\ resp.status = "ok"

SuppliedLimit == IF IsTool("get_reviews") THEN req.args.filter.limit ELSE req.args.limit
SuppliedOffset == IF IsTool("get_reviews") THEN req.args.filter.offset ELSE req.args.offset

\* C5: a supplied limit outside [1,100] or a supplied offset below 0 makes
\* get_reviews and search_reviews fail with an invalid-argument error, and an
\* absent limit or offset is answered with the defaults 20 and 0
C5_OutOfRangePaginationRejected ==
  ((IsTool("get_reviews") /\ IsString(req.args.appPackage))
     \/ (IsTool("search_reviews") /\ IsString(req.args.query))) =>
    /\ (\/ IsNumber(SuppliedLimit) /\ (SuppliedLimit.num < MinLimit \/ SuppliedLimit.num > MaxLimit)
        \/ IsNumber(SuppliedOffset) /\ SuppliedOffset.num < MinOffset)
         => IsInvalidParams(resp)
    /\ (resp.status = "ok" /\ ~Present(SuppliedLimit)) => resp.pagination.limit = DefaultLimit
    /\ (resp.status = "ok" /\ ~Present(SuppliedOffset)) => resp.pagination.offset = DefaultOffset

\* C6: reading googleplay://reviews/{appPackage} returns only reviews of that
\* appPackage
C6_AppReviewsOnlyOfApp ==
  (IsRead("reviews") /\ resp.status = "ok") =>
    \A i \in 1..Len(resp.reviews) : resp.reviews[i].appPackage = req.uri.appPackage

\* C7: reading googleplay://stats reports the number of apps and of reviews
\* now in the store and the mean of their ratings
C7_GlobalStatsFromStore ==
  IsRead("stats") =>
    /\ resp.totalApps = Cardinality(apps)
    /\ resp.totalReviews = Len(store)
    /\ resp.averageTenths * Len(store) = 10 * RatingSum(store)

\* a tool request with a non-string or missing required scalar, or a
\* non-string optional appPackage
IllTyped ==
  \/ IsTool("get_reviews") /\ ~IsString(req.args.appPackage)
  \/ IsTool("post_reply")
       /\ (~IsString(req.args.reviewId) \/ ~IsString(req.args.replyText))
  \/ IsTool("search_reviews")
       /\ (~IsString(req.args.query)
           \/ (Present(req.args.appPackage) /\ ~IsString(req.args.appPackage)))

\* C8: an ill-typed tool request fails with InvalidParams and invokes no
\* repository operation
C8_IllTypedRejectedBeforeRepository ==
  IllTyped => (IsInvalidParams(resp) /\ calls = << >>)

\* the candidates of a search: the batch find returned, narrowed to the
\* requested appPackage
SearchCandidates ==
  SelectSeq(find(store, locals.filter),
            LAMBDA r : appPackageFilter(r, req.args.appPackage))

\* C9: a candidate is in the matched set iff the query is, whatever the letter
\* case, a substring of its text or of its title when it has one
C9_MatchedIffCaseInsensitiveSubstring ==
  (IsTool("search_reviews") /\ resp.status = "ok") =>
    locals.matching =
      SelectSeq(SearchCandidates, LAMBDA r : TextMatch(r, req.args.query.str))

C9_Witness ==
  /\ IsTool("search_reviews")
  /\ resp.status = "ok"
  /\ req.args.query.str = <<"C", "R">>
  /\ \E i \in 1..Len(locals.matching) : locals.matching[i].text = <<"C", "r">>
  /\ Len(locals.matching) < Len(SearchCandidates)

\* C10: the reviews of a search_reviews response are the elements at positions
\* [offset, offset+limit) of the matched sequence, in its order (the positions
\* of that window that exist), min(limit, max(0, N-offset)) of them from a
\* non-negative offset, and hasMore is true iff offset+limit < N
C10_SearchPageIsWindowOfMatches ==
  (IsTool("search_reviews") /\ resp.status = "ok") =>
    LET N == Len(locals.matching)
        limit == resp.pagination.limit
        offset == resp.pagination.offset
    IN /\ resp.reviews = SubSeq(locals.matching, Max(offset, 0) + 1, Min(offset + limit, N))
       /\ offset >= 0 => Len(resp.reviews) = Min(limit, Max(0, N - offset))
       /\ resp.pagination.hasMore = (offset + limit < N)

\* a review that differs from another in replyData and status at most
SameButReply(a, b) == [a EXCEPT !.replyData = b.replyData, !.status = b.status] = b

\* C11: the store changes only in a post_reply step, and then only in the
\* replyData and status of the review the request names; get_reviews,
\* search_reviews and the resource reads leave every review as it was
C11_OnlyPostReplyChangesItsReview ==
  [][store' # store =>
       /\ PostReplyStep
       /\ Len(store') = Len(store)
       /\ \A i \in 1..Len(store) :
            /\ SameButReply(store'[i], store[i])
            /\ store'[i] # store[i] => store[i].id = req'.args.reviewId.str]_vars

C11_Witness ==
  /\ IsTool("post_reply")
  /\ resp.status = "ok"
  /\ Len(store) = MaxReviews
  /\ Present(store[1].replyData)
  /\ store[1].status = "responded"
  /\ ~Present(store[2].replyData)

\* C12: a successful post_reply response carries the replyId and the timestamp
\* of the reply that this call's own addReply created, whatever other calls
\* ran between its addReply and its findById
C12_ResponseCarriesOwnReply ==
  (IsTool("post_reply") /\ resp.status = "ok") =>
    /\ resp.replyId = locals.created
    /\ resp.timestamp = locals.created

\* C13: every error that leaves the CallTool handler is an McpError, and a
\* call of an unknown tool fails with MethodNotFound
C13_ToolErrorsLeaveAsMcpError ==
  (req.t = "tool" /\ resp.status = "error") =>
    /\ resp.kind = "McpError"
    /\ req.name \notin ToolNames => resp.code = "MethodNotFound"

\* C14: the transport is connected, and a request handled, only when the
\* reviews repository init and then the apps repository init have completed;
\* the apps init starts only after the reviews init has completed; when an
\* init fails the transport is not connected, no request is handled and the
\* process has exited with code 1
C14_ConnectOnlyAfterBothInits ==
  /\ proc.connected => proc.initialized = <<"reviews", "apps">>
  /\ req # Idle => proc.connected
  /\ proc.failure = "apps" => proc.initialized = <<"reviews">>
  /\ proc.failure = "reviews" => proc.initialized = << >>
  /\ proc.failure \in {"reviews", "apps"} =>
       /\ ~proc.connected
       /\ req = Idle
       /\ proc.exitCode = Num(1)

\* a first request answered by the connected server
C14_Witness ==
  /\ proc.connected
  /\ Alive(proc)
  /\ proc.initialized = <<"reviews", "apps">>
  /\ req.t = "tool"
  /\ resp.status = "ok"

\* C15: whatever the filter object of a get_reviews request holds, every
\* returned review is of the request's top-level appPackage, the app whose
\* reviews pagination.total counts
C15_ReviewsOfTopLevelApp ==
  (IsTool("get_reviews") /\ resp.status = "ok") =>
    \A i \in 1..Len(resp.reviews) :
      resp.reviews[i].appPackage = req.args.appPackage.str

====
